---- MODULE Spec2Model ----
(***************************************************************************)
(* A model of jdoc2md (src/main.py): the content filter                    *)
(* extract_class_sections over a bounded DOM, and the pipeline of main():  *)
(* argument handling, archive acquisition, page discovery, conversion and  *)
(* cleanup.                                                                *)
(*                                                                         *)
(* Strings whose characters the code inspects (class names, file names)    *)
(* are sequences of one-character strings.                                 *)
(***************************************************************************)
EXTENDS Integers, Sequences, FiniteSets, TLC

\* ------------------------------------------------------------------ bounds
\* Largest number of elements below <main> in a page.
MaxNodes == 3
\* Largest number of files in an unpacked archive.
MaxFiles == 2
\* Largest number of documents in a search response.
MaxDocs == 2

\* ------------------------------------------------- strings as sequences
RECURSIVE Concat(_)
Concat(ss) == IF ss = <<>> THEN <<>> ELSE Head(ss) \o Concat(Tail(ss))

\* x in c on Python strings: x occurs in c as a contiguous substring.
IsSubstring(x, c) ==
  \E i \in 1..(Len(c) - Len(x) + 1) : SubSeq(c, i, i + Len(x) - 1) = x

\* c.startswith(p)
StartsWith(c, p) == Len(p) <= Len(c) /\ SubSeq(c, 1, Len(p)) = p

\* c.endswith(s)
EndsWith(c, s) == Len(s) <= Len(c) /\ SubSeq(c, Len(c) - Len(s) + 1, Len(c)) = s

\* ' '.join(tokens), for a sequence of tokens
RECURSIVE JoinSpace(_)
JoinSpace(ts) ==
  IF ts = <<>> THEN <<>>
  ELSE IF Len(ts) = 1 THEN ts[1]
  ELSE ts[1] \o <<" ">> \o JoinSpace(Tail(ts))

\* --------------------------------------------------------- category labels
header == <<"h","e","a","d","e","r">>
inheritance == <<"i","n","h","e","r","i","t","a","n","c","e">>
class_description ==
  <<"c","l","a","s","s","-","d","e","s","c","r","i","p","t","i","o","n">>
summary == <<"s","u","m","m","a","r","y">>
details_list == <<"d","e","t","a","i","l","s","-","l","i","s","t">>
notes == <<"n","o","t","e","s">>
inherited_list == <<"i","n","h","e","r","i","t","e","d","-","l","i","s","t">>
\* A label that contains an excluded name without being one.
footnotes == <<"f","o","o","t">> \o notes

allowed == {header, inheritance, class_description, summary, details_list}
exclude == {notes, inherited_list}

\* The class attributes the pages of the model draw from: a class attribute
\* is a sequence of labels (its tokens in the order written).
ClassAttrs ==
  { <<>>, <<summary>>, <<notes>>, <<footnotes>>, <<summary, notes>> }

Tags == {"div", "a"}

\* set(el.get('class', []))
ClassSet(attr) == {attr[i] : i \in 1..Len(attr)}

\* ------------------------------------------------------------------ state
VARIABLES
  \* the content filter
  hasMain,    \* soup.find('main') finds a container
  dom,        \* the elements below <main>, numbered in document order
  fpc,        \* position in extract_class_sections
  idx,        \* position of the loop over main's direct children
  sections,   \* the list of serialised kept blocks
  handed,     \* the text handed to the Markdown renderer
  \* main()
  args,       \* the parsed command line
  pc,         \* position in main() and download_javadoc_jar()
  group,      \* main's local: the groupId in use
  artifact,   \* main's local: the artifactId in use
  version,    \* main's local: the version in use ("none" is None)
  jar_file,   \* main's local: "none" (unbound), "local" or "tmp"
  choices,    \* interactive flow: group_list, group_versions, versions
  tmpJar,     \* the temporary archive file exists
  extractDir, \* the temporary extraction directory exists
  outputDir,  \* the final output directory exists
  archive,    \* the files os.walk finds in the extraction directory
  html_files, \* the (html_path, md_path) pairs collected by the walk
  page,       \* position of the conversion loop
  written,    \* the md paths written, in the order written
  pending,    \* the exceptions raised inside the try statement, oldest first
  exit,       \* "running", "returned", "raised" or "usage"
  printed,    \* the messages printed
  prompts,    \* the number of input() calls made
  requests    \* the HTTP requests made

filterVars == <<hasMain, dom, fpc, idx, sections, handed>>
mainVars == <<args, pc, group, artifact, version, jar_file, choices, tmpJar,
              extractDir, outputDir, archive, html_files, page, written,
              pending, exit, printed, prompts, requests>>
vars == <<filterVars, mainVars>>

\* ------------------------------------------------------------ file names
\* file.lower(), on the letters the model's names use
LowerChar(ch) ==
  CASE ch = "B" -> "b" [] ch = "F" -> "f" [] ch = "H" -> "h"
    [] ch = "I" -> "i" [] ch = "L" -> "l" [] ch = "M" -> "m"
    [] ch = "T" -> "t" [] OTHER -> ch
Lower(c) == [i \in 1..Len(c) |-> LowerChar(c[i])]

DotHtml == <<".","h","t","m","l">>
DotMd == <<".","m","d">>

\* The non-class prefixes of the walk.
NonClassPrefixes ==
  { <<"i","n","d","e","x">>,
    <<"o","v","e","r","v","i","e","w">>,
    <<"a","l","l","c","l","a","s","s","e","s">>,
    <<"a","l","l","p","a","c","k","a","g","e","s">>,
    <<"c","o","n","s","t","a","n","t","-","v","a","l","u","e","s">>,
    <<"d","e","p","r","e","c","a","t","e","d","-","l","i","s","t">>,
    <<"h","e","l","p">>,
    <<"s","e","a","r","c","h">>,
    <<"s","e","r","i","a","l","i","z","e","d","-","f","o","r","m">> }

\* The file test without lower-casing the name.
IsClassPage_CaseSensitive(file) ==
  /\ EndsWith(file, DotHtml)
  /\ ~\E prefix \in NonClassPrefixes : StartsWith(file, prefix)

\* file.lower().endswith('.html') and not any(file.startswith(prefix) ...)
IsClassPage(file) ==
  /\ EndsWith(Lower(file), DotHtml)
  /\ ~\E prefix \in NonClassPrefixes : StartsWith(file, prefix)

\* The file names and directories archives of the model draw from.
FileNames ==
  { <<"F","o","o",".","h","t","m","l">>,
    <<"B","a","r",".","H","T","M","L">>,
    <<"i","n","d","e","x",".","h","t","m","l">>,
    <<"I","n","d","e","x",".","h","t","m","l">>,
    <<"o","v","e","r","v","i","e","w","-","t","r","e","e",".","h","t","m","l">>,
    <<"s","c","r","i","p","t",".","j","s">> }
Dirs == { <<>>, <<"c","o","m","/">> }
Entries == [dir : Dirs, file : FileNames]

\* os.walk is top-down: the files of the extraction directory itself come
\* before those of its subdirectories; within a directory the order is the
\* file system's.
WalkOrders ==
  UNION { { w \in [1..n -> Entries] :
              /\ \A i, j \in 1..n : i # j => w[i] # w[j]
              /\ \A i, j \in 1..n : i < j => Len(w[i].dir) <= Len(w[j].dir) }
          : n \in 0..MaxFiles }

\* p.rfind(ch): the last position of ch in p, 0 when absent
LastIndex(p, ch) ==
  LET S == {i \in 1..Len(p) : p[i] = ch}
  IN IF S = {} THEN 0 ELSE CHOOSE i \in S : \A j \in S : j <= i

\* os.path.splitext(p)[0]: p without its extension; the leading dots of the
\* last component do not start an extension.
SplitextRoot(p) ==
  LET sepIndex == LastIndex(p, "/")
      dotIndex == LastIndex(p, ".")
  IN IF /\ dotIndex > sepIndex
        /\ \E i \in (sepIndex + 1)..(dotIndex - 1) : p[i] # "."
     THEN SubSeq(p, 1, dotIndex - 1)
     ELSE p

\* os.path.relpath(os.path.join(root, file), temp_extract_dir)
RelPath(e) == e.dir \o e.file

\* final_output_dir / (os.path.splitext(rel_path)[0] + '.md')
MdPath(dir, e) == [dir |-> dir, rel |-> SplitextRoot(RelPath(e)) \o DotMd]

\* The list the walk collects: the class pages, in walk order.
RECURSIVE CollectHtml(_, _)
CollectHtml(w, dir) ==
  IF w = <<>> THEN <<>>
  ELSE (IF IsClassPage(Head(w).file)
        THEN <<[html |-> Head(w), md |-> MdPath(dir, Head(w))]>>
        ELSE <<>>) \o CollectHtml(Tail(w), dir)

\* ------------------------------------------------------------ main(): data
Given(x) == x # "none"

\* The command lines of the model; --output is required by the parser.
ArgSets ==
  [group : {"none", "g"}, artifact : {"none", "art"},
   version : {"none", "1.0"}, input_jar : {"none", "local.jar"},
   output : {"out"}]

\* The dispatch with the coordinate test made first.
Mode_CoordinatesFirst(a) ==
  IF Given(a.group) /\ Given(a.artifact) THEN "download"
  ELSE IF Given(a.input_jar) THEN "local"
  ELSE IF Given(a.artifact) THEN "interactive"
  ELSE "usage"

\* The branch main() takes on its arguments.
Mode(a) ==
  IF Given(a.input_jar) THEN "local"
  ELSE IF Given(a.artifact) /\ ~Given(a.group) THEN "interactive"
  ELSE IF ~Given(a.group) \/ ~Given(a.artifact) THEN "usage"
  ELSE "download"

\* version or 'latest'
VersionStr(v) == IF Given(v) THEN v ELSE "latest"

\* Path(args.output) / f"{artifact}-{version_str}"
FinalOutputDir(a, art, v) ==
  [output |-> a.output, artifact |-> art, version |-> VersionStr(v)]

\* The documents of a search response: 'g' and 'v' may be missing.
Docs == [g : {"none", "g1", "g2"}, v : {"none", "1.0", "2.0"}]
DocLists == UNION {[1..n -> Docs] : n \in 0..MaxDocs}

\* The order of version strings under sorted().
VersionRank(v) == CASE v = "1.0" -> 1 [] v = "2.0" -> 2 [] OTHER -> 0

\* The groups of the documents that have both fields, in order of first
\* appearance: list(group_versions.keys()).
RECURSIVE GroupList(_, _)
GroupList(docs, seen) ==
  IF docs = <<>> THEN <<>>
  ELSE LET d == Head(docs)
       IN IF Given(d.g) /\ Given(d.v) /\ d.g \notin seen
          THEN <<d.g>> \o GroupList(Tail(docs), seen \cup {d.g})
          ELSE GroupList(Tail(docs), seen)

\* group_versions[g]
VersionsOf(docs, g) ==
  {docs[i].v : i \in {j \in 1..Len(docs) : docs[j].g = g /\ Given(docs[j].v)}}

\* group_versions, as the sets of versions in the order of group_list
GroupVersions(docs) ==
  LET gl == GroupList(docs, {})
  IN [i \in 1..Len(gl) |-> VersionsOf(docs, gl[i])]

\* sorted(S, reverse=True)
RECURSIVE SortedDesc(_)
SortedDesc(S) ==
  IF S = {} THEN <<>>
  ELSE LET m == CHOOSE x \in S : \A y \in S : VersionRank(y) <= VersionRank(x)
       IN <<m>> \o SortedDesc(S \ {m})

\* The number of versions offered: [:10]
MaxShown == 10
Take(q, n) == SubSeq(q, 1, IF Len(q) < n THEN Len(q) ELSE n)

\* What the user may type at a prompt; int() raises on "x".
Inputs == {"x", "0", "1", "2", "3"}
IsNumber(t) == t # "x"
IntOf(t) == CASE t = "0" -> 0 [] t = "1" -> 1 [] t = "2" -> 2 [] t = "3" -> 3

NoChoices == [group_list |-> <<>>, group_versions |-> <<>>, versions |-> <<>>]

MainInit ==
  /\ args \in ArgSets
  /\ pc = "start"
  /\ group = "none"
  /\ artifact = "none"
  /\ version = "none"
  /\ jar_file = "none"
  /\ choices = NoChoices
  /\ tmpJar = FALSE
  /\ extractDir = FALSE
  /\ outputDir = FALSE
  /\ archive = <<>>
  /\ html_files = <<>>
  /\ page = 1
  /\ written = <<>>
  /\ pending = <<>>
  /\ exit = "running"
  /\ printed = <<>>
  /\ prompts = 0
  /\ requests = {}

\* The filter at rest, while main() is observed.
FilterIdle ==
  /\ hasMain = FALSE
  /\ dom = <<>>
  /\ fpc = "idle"
  /\ idx = 1
  /\ sections = <<>>
  /\ handed = <<>>

\* main() at rest, while the filter is observed.
MainIdle ==
  /\ args = [group |-> "none", artifact |-> "none", version |-> "none",
             input_jar |-> "none", output |-> "out"]
  /\ pc = "idle"
  /\ group = "none"
  /\ artifact = "none"
  /\ version = "none"
  /\ jar_file = "none"
  /\ choices = NoChoices
  /\ tmpJar = FALSE
  /\ extractDir = FALSE
  /\ outputDir = FALSE
  /\ archive = <<>>
  /\ html_files = <<>>
  /\ page = 1
  /\ written = <<>>
  /\ pending = <<>>
  /\ exit = "running"
  /\ printed = <<>>
  /\ prompts = 0
  /\ requests = {}

\* ------------------------------------------------------------ the DOM
Nodes == DOMAIN dom

\* parent[i] is 0 for a direct child of <main>. Elements are numbered in
\* document order, so a parent array is a tree exactly when every element's
\* parent is the previous element or one of its ancestors (or <main>).
RECURSIVE AncestorsOrSelf(_, _)
AncestorsOrSelf(p, i) ==
  IF i = 0 THEN {0} ELSE {i} \cup AncestorsOrSelf(p, p[i])

Shapes(n) ==
  { p \in [1..n -> 0..(n - 1)] :
      \A i \in 1..n : IF i = 1 THEN p[i] = 0
                      ELSE p[i] \in AncestorsOrSelf(p, i - 1) }

\* An element: its parent, tag, class attribute and link target, and what
\* the filter has made of it: "in" (an element of the tree), "gone"
\* (decomposed) or "text" (replaced by the text node `text`). Every element
\* starts with one text node of its own, the token [id], before its
\* children; an anchor has the link target "X".
Element(par, tg, attr) ==
  [parent |-> par, tag |-> tg, class |-> attr,
   href |-> IF tg = "a" THEN "X" ELSE "none",
   state |-> "in", text |-> <<>>]

\* el.contents restricted to elements, in document order
RECURSIVE SetToSeq(_)
SetToSeq(S) ==
  IF S = {} THEN <<>>
  ELSE LET m == CHOOSE x \in S : \A y \in S : x <= y
       IN <<m>> \o SetToSeq(S \ {m})

ChildSet(d, i) == {j \in DOMAIN d : d[j].parent = i /\ d[j].state # "gone"}
Children(d, i) == SetToSeq(ChildSet(d, i))

\* The elements find_all visits below el: those reached through elements
\* that are still elements of the tree.
RECURSIVE DescendantSet(_, _)
DescendantSet(d, el) ==
  LET cs == {j \in ChildSet(d, el) : d[j].state = "in"}
  IN cs \cup UNION {DescendantSet(d, j) : j \in cs}

\* Everything below element i, whatever its state.
RECURSIVE Subtree(_, _)
Subtree(d, i) ==
  LET cs == {j \in DOMAIN d : d[j].parent = i}
  IN cs \cup UNION {Subtree(d, j) : j \in cs}

\* ------------------------------------------------- extract_class_sections
\* The block test without its exclusion half.
KeepBlock_AllowedOnly(classes) == classes \cap allowed # {}

\* The filter's test of a top-level block: classes & allowed and not
\* classes & exclude.
KeepBlock(classes) ==
  /\ classes \cap allowed # {}
  /\ classes \cap exclude = {}

\* lambda c: c and any(x in c for x in exclude), on one string c
ExcludedIn(c) == c # <<>> /\ \E x \in exclude : IsSubstring(x, c)

\* find_all(class_=f) on a class attribute: f is tried on each token of the
\* attribute, then on the whole attribute as one string.
ClassFilterMatches(attr) ==
  \/ \E k \in 1..Len(attr) : ExcludedIn(attr[k])
  \/ ExcludedIn(JoinSpace(attr))

\* The search for excluded elements limited to el's direct children.
BadElements_DirectOnly(d, el) ==
  {j \in ChildSet(d, el) : ClassFilterMatches(d[j].class)}

\* el.find_all(class_=...): the elements below el the class filter matches
BadElements(d, el) ==
  {j \in DescendantSet(d, el) : ClassFilterMatches(d[j].class)}

\* for bad in ...: bad.decompose()  -- each match is destroyed with its subtree
DecomposeBad(d, el) ==
  LET bad == BadElements(d, el)
      gone == bad \cup UNION {Subtree(d, j) : j \in bad}
  IN [j \in DOMAIN d |-> IF j \in gone THEN [d[j] EXCEPT !.state = "gone"]
                         ELSE d[j]]

\* a.get_text(): the text nodes below a, in document order
RECURSIVE GetText(_, _)
GetText(d, i) ==
  IF d[i].state = "text" THEN d[i].text
  ELSE LET cs == Children(d, i)
       IN <<i>> \o Concat([k \in 1..Len(cs) |-> GetText(d, cs[k])])

\* el.find_all('a'): the anchors below el, in document order
Anchors(d, el) == SetToSeq({j \in DescendantSet(d, el) : d[j].tag = "a"})

\* for a in ...: a.replace_with(a.get_text())  -- over the list found before
\* the loop; an anchor inside an anchor already replaced is replaced inside
\* the detached outer anchor.
RECURSIVE ReplaceAnchors(_, _)
ReplaceAnchors(d, as) ==
  IF as = <<>> THEN d
  ELSE LET a == Head(as)
           d1 == [d EXCEPT ![a] = [@ EXCEPT !.state = "text",
                                            !.text = GetText(d, a)]]
       IN ReplaceAnchors(d1, Tail(as))

\* Tokens of a serialised element.
OpenTok(d, i) ==
  [k |-> "open", tag |-> d[i].tag, class |-> d[i].class,
   href |-> d[i].href, id |-> i]
TextTok(t) ==
  [k |-> "text", tag |-> "", class |-> <<>>, href |-> "none", id |-> t]
CloseTok(d, i) ==
  [k |-> "close", tag |-> d[i].tag, class |-> <<>>, href |-> "none", id |-> i]

\* str(el)
RECURSIVE Serialize(_, _)
Serialize(d, i) ==
  IF d[i].state = "text"
  THEN [k \in 1..Len(d[i].text) |-> TextTok(d[i].text[k])]
  ELSE LET cs == Children(d, i)
       IN <<OpenTok(d, i), TextTok(i)>>
          \o Concat([k \in 1..Len(cs) |-> Serialize(d, cs[k])])
          \o <<CloseTok(d, i)>>

\* "\n\n".join(sections)
BlankTok ==
  [k |-> "blank", tag |-> "", class |-> <<>>, href |-> "none", id |-> 0]
RECURSIVE JoinBlank(_)
JoinBlank(ss) ==
  IF ss = <<>> THEN <<>>
  ELSE IF Len(ss) = 1 THEN ss[1]
  ELSE ss[1] \o <<BlankTok>> \o JoinBlank(Tail(ss))

\* main.find_all(recursive=False): the direct children of <main>, as found
\* before the loop starts
MainChildren == SetToSeq({j \in Nodes : dom[j].parent = 0})

FilterInit ==
  /\ hasMain \in BOOLEAN
  /\ \E n \in 1..MaxNodes : \E p \in Shapes(n) :
       \E tg \in [1..n -> Tags] : \E cl \in [1..n -> ClassAttrs] :
         dom = [i \in 1..n |-> Element(p[i], tg[i], cl[i])]
  /\ fpc = "find_main"
  /\ idx = 1
  /\ sections = <<>>
  /\ handed = <<>>
  /\ MainIdle

\* main = soup.find('main'); if not main: return ""
FindMain ==
  /\ fpc = "find_main"
  /\ fpc' = IF hasMain THEN "loop" ELSE "returned"
  /\ UNCHANGED <<hasMain, dom, idx, sections, handed>>
  /\ UNCHANGED mainVars

\* One turn of the loop over main's direct children.
ProcessChild ==
  /\ fpc = "loop"
  /\ idx <= Len(MainChildren)
  /\ LET el == MainChildren[idx]
     IN IF KeepBlock(ClassSet(dom[el].class))
        THEN LET d1 == DecomposeBad(dom, el)
                 d2 == ReplaceAnchors(d1, Anchors(d1, el))
             IN /\ dom' = d2
                /\ sections' = Append(sections, Serialize(d2, el))
        ELSE UNCHANGED <<dom, sections>>
  /\ idx' = idx + 1
  /\ UNCHANGED <<hasMain, fpc, handed>>
  /\ UNCHANGED mainVars

\* markdownify.markdownify("\n\n".join(sections), heading_style="ATX")
Markdownify ==
  /\ fpc = "loop"
  /\ idx > Len(MainChildren)
  /\ handed' = JoinBlank(sections)
  /\ fpc' = "returned"
  /\ UNCHANGED <<hasMain, dom, idx, sections>>
  /\ UNCHANGED mainVars

FilterNext == FindMain \/ ProcessChild \/ Markdownify

SpecFilter == FilterInit /\ [][FilterNext]_vars

\* ------------------------------------------------------------------ main()
Say(msg) == printed' = Append(printed, msg)
SayAll(msgs) == printed' = printed \o msgs

\* return from main(): the process ends with status 0
Return ==
  /\ exit' = "returned"
  /\ pc' = "done"

\* An exception outside the try statement: it ends the process with a
\* traceback, and nothing of main() runs after it.
Raise ==
  /\ exit' = "raised"
  /\ pc' = "done"

\* if args.input_jar: the local archive is used
UseLocalJar ==
  /\ pc = "start"
  /\ Mode(args) = "local"
  /\ jar_file' = "local"
  /\ version' = "none"
  /\ artifact' = IF Given(args.artifact) THEN args.artifact ELSE "unknown"
  /\ Say("Using local jar")
  /\ pc' = "mkdtemp"
  /\ UNCHANGED <<args, group, choices, tmpJar, extractDir, outputDir, archive,
                 html_files, page, written, pending, exit, prompts, requests>>
  /\ UNCHANGED filterVars

\* parser.error(...): usage message, exit status 2
ArgumentError ==
  /\ pc = "start"
  /\ Mode(args) = "usage"
  /\ Say("Either --input-jar or both --group and --artifact must be provided.")
  /\ exit' = "usage"
  /\ pc' = "done"
  /\ UNCHANGED <<args, group, artifact, version, jar_file, choices, tmpJar,
                 extractDir, outputDir, archive, html_files, page, written,
                 pending, prompts, requests>>
  /\ UNCHANGED filterVars

\* else-branch with group and artifact: download_javadoc_jar is entered with
\* args.version; `version` holds its parameter until it returns.
StartDownload ==
  /\ pc = "start"
  /\ Mode(args) = "download"
  /\ Say("Downloading javadoc jar")
  /\ group' = args.group
  /\ version' = args.version
  /\ pc' = IF Given(args.version) THEN "fetch_jar" ELSE "fetch_metadata"
  /\ UNCHANGED <<args, artifact, jar_file, choices, tmpJar, extractDir,
                 outputDir, archive, html_files, page, written, pending, exit,
                 prompts, requests>>
  /\ UNCHANGED filterVars

\* The two messages printed before the search query.
Searching ==
  <<"ArtifactId provided without groupId.",
    "Searching for available groupIds and versions on Maven Central...">>

\* elif args.artifact and not args.group: the search query and its result,
\* up to the first prompt
SearchArtifact ==
  /\ pc = "start"
  /\ Mode(args) = "interactive"
  /\ requests' = requests \cup {"search"}
  /\ \E ok \in BOOLEAN : \E docs \in DocLists :
       IF ~ok
       THEN /\ SayAll(Searching \o <<"Error querying Maven Central.">>)
            /\ Return
            /\ UNCHANGED choices
       ELSE IF docs = <<>>
       THEN /\ SayAll(Searching \o <<"No results found for artifactId.">>)
            /\ Return
            /\ UNCHANGED choices
       ELSE IF GroupList(docs, {}) = <<>>
       THEN /\ SayAll(Searching \o <<"No groupIds with versions found for this artifactId.">>)
            /\ Return
            /\ UNCHANGED choices
       ELSE /\ SayAll(Searching \o <<"Select a groupId:">>)
            /\ choices' = [group_list |-> GroupList(docs, {}),
                           group_versions |-> GroupVersions(docs),
                           versions |-> <<>>]
            /\ pc' = "choose_group"
            /\ UNCHANGED exit
  /\ UNCHANGED <<args, group, artifact, version, jar_file, tmpJar, extractDir,
                 outputDir, archive, html_files, page, written, pending,
                 prompts>>
  /\ UNCHANGED filterVars

\* sel = input("Enter number: ") and the choice of the group
ChooseGroup ==
  /\ pc = "choose_group"
  /\ prompts' = prompts + 1
  /\ \E sel \in Inputs :
       IF ~IsNumber(sel)
       THEN /\ Say("Invalid input.")
            /\ Return
            /\ UNCHANGED <<group, choices>>
       ELSE LET sel_idx == IntOf(sel) - 1
            IN IF sel_idx < 0 \/ sel_idx >= Len(choices.group_list)
               THEN /\ Say("Invalid selection.")
                    /\ Return
                    /\ UNCHANGED <<group, choices>>
               ELSE LET g == choices.group_list[sel_idx + 1]
                    IN /\ group' = g
                       /\ choices' =
                            [choices EXCEPT !.versions =
                               Take(SortedDesc(choices.group_versions[sel_idx + 1]),
                                    MaxShown)]
                       /\ Say("Available versions")
                       /\ pc' = "choose_version"
                       /\ UNCHANGED exit
  /\ UNCHANGED <<args, artifact, version, jar_file, tmpJar, extractDir,
                 outputDir, archive, html_files, page, written, pending,
                 requests>>
  /\ UNCHANGED filterVars

\* vsel = input("Select version number: ") and the choice of the version;
\* download_javadoc_jar is then entered with the chosen version
ChooseVersion ==
  /\ pc = "choose_version"
  /\ prompts' = prompts + 1
  /\ \E vsel \in Inputs :
       IF ~IsNumber(vsel)
       THEN /\ Say("Invalid input.")
            /\ Return
            /\ UNCHANGED version
       ELSE LET vsel_idx == IntOf(vsel) - 1
            IN IF vsel_idx < 0 \/ vsel_idx >= Len(choices.versions)
               THEN /\ Say("Invalid selection.")
                    /\ Return
                    /\ UNCHANGED version
               ELSE /\ version' = choices.versions[vsel_idx + 1]
                    /\ Say("Selected")
                    /\ pc' = "fetch_jar"
                    /\ UNCHANGED exit
  /\ UNCHANGED <<args, group, artifact, jar_file, choices, tmpJar, extractDir,
                 outputDir, archive, html_files, page, written, pending,
                 requests>>
  /\ UNCHANGED filterVars

\* download_javadoc_jar, version is None: the metadata lookup
FetchMetadata ==
  /\ pc = "fetch_metadata"
  /\ requests' = requests \cup {"metadata"}
  /\ \E resp \in {"not200", "noversion", "ok"} :
       IF resp = "ok"
       THEN /\ version' = "9.9.9"
            /\ pc' = "fetch_jar"
            /\ UNCHANGED exit
       ELSE /\ Raise
            /\ UNCHANGED version
  /\ UNCHANGED <<args, group, artifact, jar_file, choices, tmpJar, extractDir,
                 outputDir, archive, html_files, page, written, pending,
                 printed, prompts>>
  /\ UNCHANGED filterVars

\* download_javadoc_jar: the request for the archive and, on status 200, the
\* creation of the temporary file (delete=False)
FetchJar ==
  /\ pc = "fetch_jar"
  /\ requests' = requests \cup {"jar"}
  /\ \E ok \in BOOLEAN :
       IF ok
       THEN /\ tmpJar' = TRUE
            /\ pc' = "stream"
            /\ UNCHANGED exit
       ELSE /\ Raise
            /\ UNCHANGED tmpJar
  /\ UNCHANGED <<args, group, artifact, version, jar_file, choices, extractDir,
                 outputDir, archive, html_files, page, written, pending,
                 printed, prompts>>
  /\ UNCHANGED filterVars

\* download_javadoc_jar: the chunks are written to the temporary file; on
\* success the function returns (tmp.name, version) and main() binds
\* jar_file and artifact. iter_content or write may raise.
StreamJar ==
  /\ pc = "stream"
  /\ \E ok \in BOOLEAN :
       IF ok
       THEN /\ jar_file' = "tmp"
            /\ artifact' = args.artifact
            /\ IF Mode(args) = "download"
               THEN Say("Downloaded version")
               ELSE UNCHANGED printed
            /\ pc' = "mkdtemp"
            /\ UNCHANGED exit
       ELSE /\ Raise
            /\ UNCHANGED <<jar_file, artifact, printed>>
  /\ UNCHANGED <<args, group, version, choices, tmpJar, extractDir, outputDir,
                 archive, html_files, page, written, pending, prompts,
                 requests>>
  /\ UNCHANGED filterVars

\* temp_extract_dir = Path(tempfile.mkdtemp(...))
Mkdtemp ==
  /\ pc = "mkdtemp"
  /\ extractDir' = TRUE
  /\ pc' = "extract"
  /\ UNCHANGED <<args, group, artifact, version, jar_file, choices, tmpJar,
                 outputDir, archive, html_files, page, written, pending, exit,
                 printed, prompts, requests>>
  /\ UNCHANGED filterVars

\* extract_jar(jar_file, temp_extract_dir), inside the try statement; a
\* missing or corrupt archive raises
ExtractJar ==
  /\ pc = "extract"
  /\ \E ok \in BOOLEAN :
       IF ok
       THEN /\ \E w \in WalkOrders : archive' = w
            /\ pc' = "walk"
            /\ UNCHANGED pending
       ELSE /\ pending' = <<"extract">>
            /\ pc' = "finally"
            /\ UNCHANGED archive
  /\ UNCHANGED <<args, group, artifact, version, jar_file, choices, tmpJar,
                 extractDir, outputDir, html_files, page, written, exit,
                 printed, prompts, requests>>
  /\ UNCHANGED filterVars

\* The walk that collects html_files, and final_output_dir.mkdir
WalkArchive ==
  /\ pc = "walk"
  /\ html_files' = CollectHtml(archive, FinalOutputDir(args, artifact, version))
  /\ outputDir' = TRUE
  /\ page' = 1
  /\ pc' = "convert"
  /\ UNCHANGED <<args, group, artifact, version, jar_file, choices, tmpJar,
                 extractDir, archive, written, pending, exit, printed, prompts,
                 requests>>
  /\ UNCHANGED filterVars

\* One turn of the conversion loop that notes a page's failure and goes on
\* to the next page.
ConvertPage_Continue ==
  /\ pc = "convert"
  /\ page <= Len(html_files)
  /\ \E r \in {"ok", "fails"} :
       /\ written' = IF r = "ok" THEN Append(written, html_files[page].md)
                     ELSE written
       /\ pending' = IF r = "ok" THEN pending ELSE <<"convert">>
       /\ page' = page + 1
  /\ UNCHANGED <<args, pc, group, artifact, version, jar_file, choices, tmpJar,
                 extractDir, outputDir, archive, html_files, exit, printed,
                 prompts, requests>>
  /\ UNCHANGED filterVars

\* One turn of the conversion loop: process_class_html(html_path, md_path).
\* It may raise before the output file is opened (parsing, makedirs, open)
\* or while it is written.
ConvertPage ==
  /\ pc = "convert"
  /\ page <= Len(html_files)
  /\ \E r \in {"ok", "fails_before_open", "fails_in_write"} :
       /\ written' = IF r = "fails_before_open" THEN written
                     ELSE Append(written, html_files[page].md)
       /\ IF r = "ok"
          THEN /\ page' = page + 1
               /\ UNCHANGED <<pc, pending>>
          ELSE /\ pending' = <<"convert">>
               /\ pc' = "finally"
               /\ UNCHANGED page
  /\ UNCHANGED <<args, group, artifact, version, jar_file, choices, tmpJar,
                 extractDir, outputDir, archive, html_files, exit, printed,
                 prompts, requests>>
  /\ UNCHANGED filterVars

\* After the loop: the two closing messages
ConvertDone ==
  /\ pc = "convert"
  /\ page > Len(html_files)
  /\ SayAll(<<"Created Markdown documentation directory",
              "Total files converted">>)
  /\ pc' = "finally"
  /\ UNCHANGED <<args, group, artifact, version, jar_file, choices, tmpJar,
                 extractDir, outputDir, archive, html_files, page, written,
                 pending, exit, prompts, requests>>
  /\ UNCHANGED filterVars

\* finally: shutil.rmtree(temp_extract_dir, ignore_errors=True), then
\* os.remove(jar_file) for a downloaded archive. rmtree never raises, and
\* the tree, created and filled by this run, is taken to be removable;
\* os.remove is unguarded, so its failure leaves main() like any other
\* exception.
CleanUp ==
  /\ pc = "finally"
  /\ extractDir' = FALSE
  /\ IF ~Given(args.input_jar) /\ tmpJar
     THEN \E removed \in BOOLEAN :
            /\ tmpJar' = ~removed
            /\ pending' = IF removed THEN pending ELSE Append(pending, "remove")
     ELSE UNCHANGED <<tmpJar, pending>>
  /\ exit' = IF pending' = <<>> THEN "returned" ELSE "raised"
  /\ pc' = "done"
  /\ UNCHANGED <<args, group, artifact, version, jar_file, choices, outputDir,
                 archive, html_files, page, written, printed, prompts,
                 requests>>
  /\ UNCHANGED filterVars

Init == MainInit /\ FilterIdle

Next ==
  \/ UseLocalJar
  \/ ArgumentError
  \/ StartDownload
  \/ SearchArtifact
  \/ ChooseGroup
  \/ ChooseVersion
  \/ FetchMetadata
  \/ FetchJar
  \/ StreamJar
  \/ Mkdtemp
  \/ ExtractJar
  \/ WalkArchive
  \/ ConvertPage
  \/ ConvertDone
  \/ CleanUp

Spec == Init /\ [][Next]_vars

\* ------------------------------------------------ properties of main()
Range(q) == {q[i] : i \in 1..Len(q)}

\* C1: however main() ends, at termination the temporary extraction
\* directory does not exist, the temporary archive file does not exist, and
\* no failure of a cleanup step is surfaced.
C1_TemporariesRemovedOnEveryExit ==
  pc = "done" =>
    /\ ~extractDir
    /\ ~tmpJar
    /\ "remove" \notin Range(pending)

\* A file the contract selects: its name ends in .html whatever the case of
\* the letters, and starts with none of the nine non-class prefixes.
SelectedByContract(file) ==
  /\ Len(file) >= 5
  /\ \A i \in 1..5 : LowerChar(file[Len(file) - 5 + i]) = DotHtml[i]
  /\ \A prefix \in NonClassPrefixes :
       Len(prefix) > Len(file) \/ SubSeq(file, 1, Len(prefix)) # prefix

WalkDone == pc \in {"convert", "finally", "done"} /\ outputDir

\* C5: a file of the unpacked archive is selected for conversion exactly
\* when its name ends in .html (case-insensitively) and starts with none of
\* the non-class prefixes; the selected files are converted once each, and
\* no other file gets an output document.
C5_SelectionExact ==
  /\ ~WalkDone => html_files = <<>> /\ written = <<>>
  /\ WalkDone =>
       /\ {html_files[i].html : i \in 1..Len(html_files)} =
            {e \in Range(archive) : SelectedByContract(e.file)}
       /\ \A i, j \in 1..Len(html_files) :
            i # j => html_files[i].html # html_files[j].html
       /\ Len(written) <= Len(html_files)
       /\ \A i \in 1..Len(written) : written[i] = html_files[i].md
       /\ exit = "returned" => Len(written) = Len(html_files)

\* C5's case: a run that ended well on an archive holding a page with an
\* upper-case extension and a file that is not a class page.
C5_Witness ==
  /\ exit = "returned"
  /\ WalkDone
  /\ Len(written) = 1
  /\ \E e \in Range(archive) : ~EndsWith(e.file, DotHtml) /\ SelectedByContract(e.file)
  /\ \E e \in Range(archive) : EndsWith(e.file, DotHtml) /\ ~SelectedByContract(e.file)

\* The versions known to the run: the one given on the command line and
\* the one resolved or chosen.
KnownVersions == {args.version, version} \ {"none"}

\* C6: in every acquisition mode the destination of a page is the output
\* directory joined with {artifact}-{v} and the page's relative path with
\* its extension changed to .md, v being the version given or resolved,
\* and 'latest' only when no version is known.
C6_DestinationNamesKnownVersion ==
  \A i \in 1..Len(html_files) :
    LET md == html_files[i].md
        rel == RelPath(html_files[i].html)
    IN /\ md.dir.output = args.output
       /\ md.dir.artifact = artifact
       /\ md.rel = SubSeq(rel, 1, Len(rel) - 5) \o DotMd
       /\ IF KnownVersions = {} THEN md.dir.version = "latest"
          ELSE md.dir.version \in KnownVersions

SelectionFailures ==
  { "Error querying Maven Central.",
    "No results found for artifactId.",
    "No groupIds with versions found for this artifactId.",
    "Invalid selection.",
    "Invalid input." }

SelectionFailed ==
  printed # <<>> /\ printed[Len(printed)] \in SelectionFailures

\* C7: in the interactive flow every selection failure ends the run as a
\* fatal error (abnormal termination) after its message, with no further
\* prompt, no archive downloaded and no output created.
C7_SelectionFailureIsFatal ==
  SelectionFailed =>
    /\ pc = "done"
    /\ exit \in {"raised", "usage"}
    /\ "jar" \notin requests
    /\ ~tmpJar
    /\ ~outputDir
    /\ written = <<>>

\* C8: pages are converted one at a time in discovery order, and when the
\* conversion of page k fails the run aborts: the pages before k are
\* written, no page after k is, the run ends abnormally and the temporary
\* extraction directory is removed.
C8_FailureAbortsBatch ==
  /\ \A i \in 1..Len(written) :
       i <= Len(html_files) /\ written[i] = html_files[i].md
  /\ pc = "convert" => Len(written) = page - 1
  /\ "convert" \in Range(pending) =>
       /\ pc \in {"finally", "done"}
       /\ page <= Len(html_files)
       /\ Len(written) >= page - 1
       /\ Len(written) <= page
       /\ pc = "done" => exit = "raised" /\ ~extractDir

\* C8's case: a run over two pages that ended after the first page was
\* written and the second failed.
C8_Witness ==
  /\ pc = "done"
  /\ "convert" \in Range(pending)
  /\ page = 2
  /\ Len(html_files) = 2

LocalSelected == Given(args.input_jar)
CoordinatesSelected == Given(args.artifact)
ExactlyOneMode == LocalSelected # CoordinatesSelected
Acquiring == jar_file # "none" \/ requests # {}

\* C9 as stated: the run proceeds to acquisition only when exactly one of
\* the two modes is selected; a command line selecting both or neither is
\* rejected as an argument error before any archive is acquired.
C9_ExactlyOneModeOrRejected ==
  /\ Acquiring => ExactlyOneMode
  /\ (pc # "start" /\ ~ExactlyOneMode) => exit = "usage" /\ ~Acquiring

\* C9, amended: the run proceeds to acquisition exactly when --input-jar or
\* --artifact is given. With --input-jar the local archive is used and
\* nothing is requested or downloaded, whatever coordinates come with it;
\* without it, --artifact starts the coordinate-based acquisition. A
\* command line with neither is rejected as an argument error before any
\* archive is acquired.
C9_LocalArchiveTakesPrecedence ==
  /\ pc # "start" =>
       (exit = "usage" <=> (~LocalSelected /\ ~CoordinatesSelected))
  /\ exit = "usage" => ~Acquiring /\ ~tmpJar /\ ~extractDir
  /\ (pc # "start" /\ LocalSelected) =>
       jar_file = "local" /\ requests = {} /\ ~tmpJar
  /\ (pc # "start" /\ ~LocalSelected /\ CoordinatesSelected) =>
       /\ jar_file # "local"
       /\ pc = "done" => requests # {}

\* C9's case: both modes selected, and the run went through with the local
\* archive.
C9_Witness ==
  /\ LocalSelected /\ Given(args.group) /\ Given(args.artifact)
  /\ exit = "returned"
  /\ outputDir
  /\ requests = {}

\* ------------------------------------------------ properties of the filter
\* All tokens handed on, over all kept blocks.
SectionTokens == UNION {{sections[b][t] : t \in 1..Len(sections[b])} :
                          b \in 1..Len(sections)}

\* The element each kept block is the serialisation of.
BlockIds == [b \in 1..Len(sections) |-> sections[b][1].id]

TopLevel == {j \in Nodes : dom[j].parent = 0}

HasLabelIn(j, labels) == \E t \in 1..Len(dom[j].class) : dom[j].class[t] \in labels

\* A direct child of the container that the contract keeps.
Qualifies(j) ==
  /\ j \in TopLevel
  /\ HasLabelIn(j, {header, inheritance, class_description, summary, details_list})
  /\ ~HasLabelIn(j, {notes, inherited_list})

\* The elements of block el between j and el: j and its ancestors below el.
RECURSIVE PathInBlock(_, _)
PathInBlock(j, el) ==
  IF j = el \/ j = 0 THEN {} ELSE {j} \cup PathInBlock(dom[j].parent, el)

Returned == fpc = "returned" /\ hasMain

\* C2: for a page with a primary content container, the blocks handed to
\* the renderer are exactly the container's direct children whose labels
\* intersect the allowed set and not the excluded set, each once, in
\* document order, joined by blank lines.
C2_KeptBlocksExact ==
  /\ \A b \in 1..Len(sections) : sections[b][1].k = "open"
  /\ fpc = "loop" =>
       BlockIds = SetToSeq({j \in TopLevel : Qualifies(j) /\
                              \E c \in 1..(idx - 1) : MainChildren[c] = j})
  /\ Returned =>
       /\ BlockIds = SetToSeq({j \in TopLevel : Qualifies(j)})
       /\ handed = JoinBlank(sections)

\* C2's case: a page with a kept block, a block that carries an allowed and
\* an excluded label, and a block with no allowed label, fully processed.
C2_Witness ==
  /\ Returned
  /\ Len(sections) >= 1
  /\ \E j \in TopLevel : Qualifies(j)
  /\ \E j \in TopLevel : HasLabelIn(j, allowed) /\ HasLabelIn(j, exclude)
  /\ \E j \in TopLevel : ~HasLabelIn(j, allowed)

\* C3: no element that carries an excluded label (notes, inherited-list)
\* appears in the output, at any depth.
C3_NoExcludedElement ==
  \A tok \in SectionTokens : ClassSet(tok.class) \cap exclude = {}

\* C3's case: a kept block that held an excluded element at depth two, below
\* an element with no excluded label, fully processed.
C3_Witness ==
  /\ Returned
  /\ \E el \in TopLevel : \E j \in Subtree(dom, el) :
       /\ Qualifies(el)
       /\ dom[j].parent # el
       /\ HasLabelIn(j, exclude)
       /\ ~HasLabelIn(dom[j].parent, exclude)
       /\ \E b \in 1..Len(sections) : sections[b][1].id = el

\* An anchor of a kept block that is not inside an excluded sub-block.
AnchorOutsideExcluded(j, el) ==
  /\ dom[j].tag = "a"
  /\ \A a \in PathInBlock(j, el) : ~HasLabelIn(a, exclude)

\* C4: the content handed to the renderer holds no hyperlink element and no
\* link target, the kept block itself included, and keeps the visible text
\* of every hyperlink that was not inside an excluded sub-block.
C4_NoHyperlinkLeft ==
  Returned =>
    /\ \A tok \in SectionTokens : tok.tag # "a" /\ tok.href = "none"
    /\ \A el \in TopLevel : Qualifies(el) =>
         \A j \in {el} \cup Subtree(dom, el) :
           AnchorOutsideExcluded(j, el) =>
             \E b \in 1..Len(sections) : \E t \in 1..Len(sections[b]) :
               /\ sections[b][1].id = el
               /\ sections[b][t].k = "text"
               /\ sections[b][t].id = j

\* C10: inside a kept block an element is removed only if it or one of its
\* ancestors inside the block carries a label equal to notes or
\* inherited-list; a label that only contains such a name removes nothing.
C10_OnlyExactLabelsRemoved ==
  Returned =>
    \A el \in TopLevel : Qualifies(el) =>
      \A j \in Subtree(dom, el) :
        dom[j].state = "gone" =>
          \E a \in PathInBlock(j, el) : HasLabelIn(a, exclude)

====
